---- MODULE Spec2Model ----
(***************************************************************************)
(* Route simulation (src/src/main.cpp): the tick state machine of class    *)
(* Simulation over the chains of m_chains.                                 *)
(*                                                                         *)
(* Amount is a double in the source.  The model keeps amounts as integers  *)
(* in units of 10^-5 (fixed point): 2.0 is 200000, the gas cost 0.0001 is  *)
(* 10, and 0.00005 is 5.  Sums and differences are exact; the two products *)
(* of the source (x * 1.5 and x * executionSurplus) are rounded down to    *)
(* the unit.  executionSurplus is kept in units of 10^-4 (1.0005 is 10005).*)
(***************************************************************************)
EXTENDS Integers, Sequences, FiniteSets, TLC

\* ------------------------------------------------------------------ bounds
\* largest argument of simulate(iterations) that is explored
MaxIterations == 5
\* number of actions the strategy proposes during one run, over all ticks
MaxProposed == 2

\* ------------------------------------------------------------ value types
\* units per 1.0 of an Amount
Scale == 10 ^ 5
\* units per 1.0 of executionSurplus
SurplusScale == 10 ^ 4

\* Amount is double: the one value of the type that is no number.  Every
\* comparison with it is false and every sum or difference with it is it.
NaN == 0 - 2 ^ 30

IsNaN(x) == x = NaN

\* operator< of double
Less(a, b) == ~IsNaN(a) /\ ~IsNaN(b) /\ a < b

\* operator+ and operator- of double
Plus(a, b) == IF IsNaN(a) \/ IsNaN(b) THEN NaN ELSE a + b

Minus(a, b) == IF IsNaN(a) \/ IsNaN(b) THEN NaN ELSE a - b

\* std::min(a, b): (b < a) ? b : a
Min(a, b) == IF Less(b, a) THEN b ELSE a

\* x * 1.5 (constructor of Chain)
TimesOneAndHalf(x) == (x * 3) \div 2

\* x * surplus, surplus in units of 1/SurplusScale, x >= 0; split so that no
\* intermediate value leaves 32 bits
TimesSurplus(x, surplus) ==
    IF IsNaN(x) THEN NaN
    ELSE (x \div SurplusScale) * surplus + ((x % SurplusScale) * surplus) \div SurplusScale

ChainParams(orderflowRegen, outflowRegen, gas, surplus, bridging, inventoryLock) ==
    [ orderflowRegenPerTick |-> orderflowRegen,
      outflowRegenPerTick   |-> outflowRegen,
      gasCost               |-> gas,
      executionSurplus      |-> surplus,
      bridgingTime          |-> bridging,
      inventoryLockTime     |-> inventoryLock ]

\* Chain::Chain: the caps are 1.5 x the initial pools; lockedBalances is empty
Chain(name, rp, initialOrderflowBal, initialOutflowBal, startingStrategyBal) ==
    [ chainName           |-> name,
      currentOrderflowBal |-> initialOrderflowBal,
      currentOutflowBal   |-> initialOutflowBal,
      currentStrategyBal  |-> startingStrategyBal,
      maxOrderflowBal     |-> TimesOneAndHalf(initialOrderflowBal),
      maxOutflowBal       |-> TimesOneAndHalf(initialOutflowBal),
      maxStrategyBal      |-> TimesOneAndHalf(startingStrategyBal),
      params              |-> rp,
      balance             |-> startingStrategyBal,
      lockedBalances      |-> << >> ]

Action(type, source, destination, amount) ==
    [ type |-> type, source |-> source, destination |-> destination, amount |-> amount ]

\* ------------------------------------------------------- configurations
\* Simulation::initRoutes: the three chains of the source, in push_back order
initRoutes ==
    << Chain("A", ChainParams(64000, 24000, 10, 10005, 4, 4),
             10 * Scale, 30 * Scale, 10 * Scale),
       Chain("B", ChainParams(38000, 40000, 50, 10003, 6, 6),
             30 * Scale, 10 * Scale, 0),
       Chain("C", ChainParams(24000, 61000, 80, 10009, 4, 8),
             40 * Scale, 30 * Scale, 0) >>

\* Other arguments of the same constructors: small pools on A and B, a
\* starting balance on B, lock times 0, 1 and 2, no outflow regeneration on B
\* (B's outflow pool is 30 when the first actions are validated).
tightRoutes ==
    << Chain("A", ChainParams(64000, 24000, 10, 10005, 4, 0),
             10 * Scale, 2 * Scale, 10 * Scale),
       Chain("B", ChainParams(38000, 0, 50, 10003, 1, 2),
             4 * Scale, 30 * Scale, 6 * Scale),
       Chain("C", ChainParams(24000, 61000, 80, 10009, 4, 8),
             40 * Scale, 30 * Scale, 0) >>

\* What a strategy may append to `actions` in onTickRecalc.  The first two of
\* StrategyActions are the ones of class Strategy.
StrategyActions ==
    { Action("bridge", "A", "B", 2 * Scale),
      Action("execute", "B", "A", 5 * Scale),
      Action("bridge", "A", "B", 6 * Scale),
      Action("bridge", "A", "B", 5),
      Action("bridge", "B", "A", 5),
      Action("bridge", "A", "C", 2 * Scale),
      Action("bridge", "A", "A", 1 * Scale) }

TightActions ==
    { Action("bridge", "A", "B", 2 * Scale),
      Action("execute", "A", "B", 2 * Scale),
      Action("execute", "A", "B", 6 * Scale),
      Action("bridge", "B", "A", 6 * Scale),
      Action("bridge", "B", "A", 2 * Scale),
      Action("execute", "B", "A", 2 * Scale),
      Action("execute", "A", "B", 5) }

MalformedActions ==
    { Action("execute", "X", "X", 2 * Scale),
      Action("bridge", "A", "X", 2 * Scale),
      Action("execute", "X", "A", 2 * Scale),
      Action("bridge", "A", "B", 0),
      Action("execute", "A", "B", 0 - Scale),
      Action("bridge", "A", "B", 2 * Scale) }

\* a strategy whose computation of an amount gave no number
NonFiniteActions ==
    { Action("bridge", "A", "B", NaN),
      Action("execute", "A", "B", NaN),
      Action("bridge", "A", "B", 2 * Scale),
      Action("execute", "B", "A", 5 * Scale),
      Action("bridge", "A", "B", 0),
      Action("execute", "A", "B", 0 - Scale) }

\* a run is one configuration together with the actions its strategy picks from
Scenarios ==
    { [ chains |-> initRoutes,  proposals |-> StrategyActions ],
      [ chains |-> tightRoutes, proposals |-> TightActions ],
      [ chains |-> initRoutes,  proposals |-> MalformedActions ] }

\* ------------------------------------------------------------------ state
VARIABLES
    m_chains,     \* Simulation::m_chains
    proposals,    \* the actions the strategy of this run chooses from
    pc,           \* position in simulate()/tick()
    iterations,   \* argument of simulate
    t,            \* loop counter of simulate, tickCounter of tick
    ci,           \* position of the chain loop of tick (1-based)
    snapshot,     \* the chains as handed to onTickRecalc in the current tick
    actions,      \* the Actions of the current tick
    ai,           \* position of the action loop of tick (1-based)
    outcomes,     \* what tick printed for each action of the current tick
    proposed,     \* number of actions proposed so far in this run
    ticksRun,     \* history: the arguments of the calls of tick, in order
    origin,       \* history: for each ledger entry ever pushed, where and when
    credited,     \* history: for each ledger entry ever pushed, the ticks at
                  \*          which its amount was added to a balance
    agedAt,       \* history: for each chain, the tick of the last iteration of
                  \*          the chain loop that handled it (-1: none yet)
    strategyCalls \* history: the ticks of the calls of onTickRecalc, in order

vars == << m_chains, proposals, pc, iterations, t, ci, snapshot, actions, ai,
           outcomes, proposed, ticksRun, origin, credited, agedAt, strategyCalls >>

\* --------------------------------------------------- tick: pools and ledger
\* lines 168-173: both pools grow by their rate, limited by the cap
Regenerate(chain) ==
    [ chain EXCEPT
        !.currentOrderflowBal =
            Min(Plus(chain.currentOrderflowBal, chain.params.orderflowRegenPerTick),
                chain.maxOrderflowBal),
        !.currentOutflowBal =
            Min(Plus(chain.currentOutflowBal, chain.params.outflowRegenPerTick),
                chain.maxOutflowBal) ]

\* variant: the countdown stops at 1
DecrementAboveOne(pendingBal) ==
    IF pendingBal.ticks > 1 THEN [ pendingBal EXCEPT !.ticks = @ - 1 ] ELSE pendingBal

\* lines 181-183 of the predicate: if (ticks > 0) --ticks
Decrement(pendingBal) ==
    IF pendingBal.ticks > 0 THEN [ pendingBal EXCEPT !.ticks = @ - 1 ] ELSE pendingBal

Aged(lockedBalances) ==
    [ i \in 1 .. Len(lockedBalances) |-> Decrement(lockedBalances[i]) ]

\* lines 185-192 of the predicate: an entry whose ticks are 0 is marked
MarkedForRemoval(pendingBal) == pendingBal.ticks = 0

\* the entries the predicate marks, after their decrement
Released(lockedBalances) == SelectSeq(Aged(lockedBalances), MarkedForRemoval)

\* variant: the marked entries are credited but not erased
RemoveIfKeepingMarked(lockedBalances) == Aged(lockedBalances)

\* erase(remove_if(...)): the entries that stay, in their order
RemoveIf(lockedBalances) ==
    SelectSeq(Aged(lockedBalances), LAMBDA e : ~MarkedForRemoval(e))

RECURSIVE SumAmounts(_)
SumAmounts(entries) ==
    IF entries = << >> THEN 0 ELSE Plus(Head(entries).amount, SumAmounts(Tail(entries)))

\* variant: the amounts of the marked entries are not added to the balance
CreditWithheld(chain) == chain.balance

\* line 186: chain.balance += balance, once for each marked entry
Credit(chain) == Plus(chain.balance, SumAmounts(Released(chain.lockedBalances)))

\* one iteration of the chain loop of tick (lines 166-195)
TickedChain(chain) ==
    LET r == Regenerate(chain)
    IN  [ r EXCEPT !.balance = Credit(chain),
                   !.lockedBalances = RemoveIf(chain.lockedBalances) ]

\* ------------------------------------------------------------ reportState
RECURSIVE TotalUpTo(_, _)
\* lines 300-310: total after the first n chains
TotalUpTo(chains, n) ==
    IF n = 0 THEN 0
    ELSE Plus(Plus(TotalUpTo(chains, n - 1), chains[n].balance),
              SumAmounts(chains[n].lockedBalances))

\* lines 295-313: the total that reportState prints
reportState(chains) == TotalUpTo(chains, Len(chains))

\* ----------------------------------------------------- tick: one action
\* lines 211-224: the lookup loop; 0 stands for nullptr
RECURSIVE FindChains(_, _, _, _, _)
FindChains(chains, action, i, pSource, pDestination) ==
    IF i > Len(chains) THEN [ pSource |-> pSource, pDestination |-> pDestination ]
    ELSE IF chains[i].chainName = action.source
         THEN FindChains(chains, action, i + 1, i, pDestination)
    ELSE IF chains[i].chainName = action.destination
         THEN FindChains(chains, action, i + 1, pSource, i)
    ELSE FindChains(chains, action, i + 1, pSource, pDestination)

Lookup(chains, action) == FindChains(chains, action, 1, 0, 0)

\* variant: the gas check is missing
ValidateWithoutGasCheck(chains, action) ==
    IF action.source = action.destination THEN "SameChainError"
    ELSE LET p == Lookup(chains, action) IN
    IF p.pSource = 0 \/ p.pDestination = 0 THEN "UnknownChainError"
    ELSE LET src == chains[p.pSource]
             dst == chains[p.pDestination] IN
    IF src.balance < action.amount THEN "InsufficientSourceFunds"
    ELSE IF action.type = "bridge"
    THEN IF dst.currentOutflowBal < action.amount
         THEN "InsufficientDestinationLiquidity" ELSE "ok"
    ELSE IF dst.currentOrderflowBal < action.amount
         THEN "InsufficientDestinationLiquidity" ELSE "ok"

\* variant: the chains are resolved before the names are compared
ValidateResolvingFirst(chains, action) ==
    LET p == Lookup(chains, action) IN
    IF p.pSource = 0 \/ p.pDestination = 0 THEN "UnknownChainError"
    ELSE IF action.source = action.destination THEN "SameChainError"
    ELSE LET src == chains[p.pSource]
             dst == chains[p.pDestination] IN
    IF src.balance < action.amount THEN "InsufficientSourceFunds"
    ELSE IF action.type = "bridge"
    THEN IF dst.currentOutflowBal < action.amount
         THEN "InsufficientDestinationLiquidity"
         ELSE IF action.amount < src.params.gasCost THEN "BelowGasCost" ELSE "ok"
    ELSE IF dst.currentOrderflowBal < action.amount
         THEN "InsufficientDestinationLiquidity"
         ELSE IF action.amount < src.params.gasCost THEN "BelowGasCost" ELSE "ok"

\* variant: the checks of the kind come before the solvency check
ValidateKindFirst(chains, action) ==
    IF action.source = action.destination THEN "SameChainError"
    ELSE LET p == Lookup(chains, action) IN
    IF p.pSource = 0 \/ p.pDestination = 0 THEN "UnknownChainError"
    ELSE LET src == chains[p.pSource]
             dst == chains[p.pDestination] IN
    IF action.type = "bridge" /\ dst.currentOutflowBal < action.amount
    THEN "InsufficientDestinationLiquidity"
    ELSE IF action.type # "bridge" /\ dst.currentOrderflowBal < action.amount
    THEN "InsufficientDestinationLiquidity"
    ELSE IF action.amount < src.params.gasCost THEN "BelowGasCost"
    ELSE IF src.balance < action.amount THEN "InsufficientSourceFunds"
    ELSE "ok"

\* the checks of lines 204-249 and 267-275 in their order; the result names
\* the message that is printed, "ok" when the action is executed
Validate(chains, action) ==
    IF action.source = action.destination THEN "SameChainError"
    ELSE LET p == Lookup(chains, action) IN
    IF p.pSource = 0 \/ p.pDestination = 0 THEN "UnknownChainError"
    ELSE LET src == chains[p.pSource]
             dst == chains[p.pDestination] IN
    IF Less(src.balance, action.amount) THEN "InsufficientSourceFunds"
    ELSE IF action.type = "bridge"
    THEN IF Less(dst.currentOutflowBal, action.amount)
         THEN "InsufficientDestinationLiquidity"
         ELSE IF Less(action.amount, src.params.gasCost) THEN "BelowGasCost" ELSE "ok"
    ELSE IF Less(dst.currentOrderflowBal, action.amount)
         THEN "InsufficientDestinationLiquidity"
         ELSE IF Less(action.amount, src.params.gasCost) THEN "BelowGasCost" ELSE "ok"

\* variant: the gas cost is not taken off the locked amount
LockedAmountGross(src, action) ==
    IF action.type = "bridge"
    THEN action.amount
    ELSE TimesSurplus(action.amount, src.params.executionSurplus)

\* line 251 / lines 277-278: the amount that is locked on the destination
LockedAmount(src, action) ==
    IF action.type = "bridge"
    THEN Minus(action.amount, src.params.gasCost)
    ELSE TimesSurplus(Minus(action.amount, src.params.gasCost), src.params.executionSurplus)

\* lines 259 / 286: the countdown of the new entry
LockTime(src, action) ==
    IF action.type = "bridge" THEN src.params.bridgingTime
    ELSE src.params.inventoryLockTime

\* variant: the source's balance is not reduced
BridgeWithoutDebit(chains, action, s, d, id) ==
    [ chains EXCEPT
        ![d].currentOutflowBal = @ - action.amount,
        ![s].currentOutflowBal = @ + action.amount,
        ![d].lockedBalances =
            Append(@, [ amount |-> LockedAmount(chains[s], action),
                        ticks  |-> LockTime(chains[s], action),
                        id     |-> id ]) ]

\* variant: fee and lock time are those of the destination
BridgeOnDestinationParams(chains, action, s, d, id) ==
    [ chains EXCEPT
        ![d].currentOutflowBal = @ - action.amount,
        ![s].currentOutflowBal = @ + action.amount,
        ![s].balance = @ - action.amount,
        ![d].lockedBalances =
            Append(@, [ amount |-> LockedAmount(chains[d], action),
                        ticks  |-> LockTime(chains[d], action),
                        id     |-> id ]) ]

\* variant: the source's outflow pool grows by the amount net of gas
BridgeCreditingPoolNet(chains, action, s, d, id) ==
    [ chains EXCEPT
        ![d].currentOutflowBal = @ - action.amount,
        ![s].currentOutflowBal = @ + action.amount - chains[s].params.gasCost,
        ![s].balance = @ - action.amount,
        ![d].lockedBalances =
            Append(@, [ amount |-> LockedAmount(chains[s], action),
                        ticks  |-> LockTime(chains[s], action),
                        id     |-> id ]) ]

\* variant: the amount is added to the last entry of the destination's
\* ledger when that entry has the same countdown
BridgeCoalescing(chains, action, s, d, id) ==
    LET ledger == chains[d].lockedBalances
        n      == Len(ledger)
    IN  [ chains EXCEPT
            ![d].currentOutflowBal = @ - action.amount,
            ![s].currentOutflowBal = @ + action.amount,
            ![s].balance = @ - action.amount,
            ![d].lockedBalances =
                IF n > 0 /\ ledger[n].ticks = LockTime(chains[s], action)
                THEN [ @ EXCEPT ![n].amount = @ + LockedAmount(chains[s], action) ]
                ELSE Append(@, [ amount |-> LockedAmount(chains[s], action),
                                 ticks  |-> LockTime(chains[s], action),
                                 id     |-> id ]) ]

\* variant: the bridge also takes the amount from the outflow pool of every
\* chain that is neither its source nor its destination
BridgeTouchingOthers(chains, action, s, d, id) ==
    [ i \in 1 .. Len(chains) |->
        IF i = s /\ i = d THEN chains[i]
        ELSE IF i = s
        THEN [ chains[i] EXCEPT !.currentOutflowBal = @ + action.amount,
                                !.balance = @ - action.amount ]
        ELSE IF i = d
        THEN [ chains[i] EXCEPT
                 !.currentOutflowBal = @ - action.amount,
                 !.lockedBalances =
                     Append(@, [ amount |-> LockedAmount(chains[s], action),
                                 ticks  |-> LockTime(chains[s], action),
                                 id     |-> id ]) ]
        ELSE [ chains[i] EXCEPT !.currentOutflowBal = @ - action.amount ] ]

\* lines 251-259: an accepted bridge
Bridge(chains, action, s, d, id) ==
    [ chains EXCEPT
        ![d].currentOutflowBal = Minus(@, action.amount),
        ![s].currentOutflowBal = Plus(@, action.amount),
        ![s].balance = Minus(@, action.amount),
        ![d].lockedBalances =
            Append(@, [ amount |-> LockedAmount(chains[s], action),
                        ticks  |-> LockTime(chains[s], action),
                        id     |-> id ]) ]

\* variant: the orderflow pool of the source is reduced
ExecuteDrainingSource(chains, action, s, d, id) ==
    [ chains EXCEPT
        ![s].currentOrderflowBal = @ - action.amount,
        ![s].balance = @ - action.amount,
        ![d].lockedBalances =
            Append(@, [ amount |-> LockedAmount(chains[s], action),
                        ticks  |-> LockTime(chains[s], action),
                        id     |-> id ]) ]

\* variant: the entry is pushed on the ledger of the source
ExecuteRefundingSource(chains, action, s, d, id) ==
    [ chains EXCEPT
        ![d].currentOrderflowBal = @ - action.amount,
        ![s].balance = @ - action.amount,
        ![s].lockedBalances =
            Append(@, [ amount |-> LockedAmount(chains[s], action),
                        ticks  |-> LockTime(chains[s], action),
                        id     |-> id ]) ]

\* lines 277-286: an accepted execute
Execute(chains, action, s, d, id) ==
    [ chains EXCEPT
        ![d].currentOrderflowBal = Minus(@, action.amount),
        ![s].balance = Minus(@, action.amount),
        ![d].lockedBalances =
            Append(@, [ amount |-> LockedAmount(chains[s], action),
                        ticks  |-> LockTime(chains[s], action),
                        id     |-> id ]) ]

\* variant: the source's balance is reduced before the checks of the kind
AppliedChargingRejected(chains, action, id) ==
    LET p == Lookup(chains, action) IN
    IF Validate(chains, action) \in { "InsufficientDestinationLiquidity", "BelowGasCost" }
    THEN [ chains EXCEPT ![p.pSource].balance = @ - action.amount ]
    ELSE IF Validate(chains, action) # "ok" THEN chains
    ELSE IF action.type = "bridge"
         THEN Bridge(chains, action, p.pSource, p.pDestination, id)
         ELSE Execute(chains, action, p.pSource, p.pDestination, id)

\* the body of the action loop for one action: the chains afterwards
Applied(chains, action, id) ==
    IF Validate(chains, action) # "ok" THEN chains
    ELSE LET p == Lookup(chains, action) IN
         IF action.type = "bridge"
         THEN Bridge(chains, action, p.pSource, p.pDestination, id)
         ELSE Execute(chains, action, p.pSource, p.pDestination, id)

\* variant: a rejection leaves the loop (break for continue)
NextActionBreaking(result, index, count) ==
    IF result # "ok" THEN count + 1 ELSE index + 1

\* the `continue` of every rejection and the end of the loop body: the action
\* loop goes on with the next action (lines 202, 207, 229, 235, 243, 248, 269, 274)
NextAction(result, index, count) == index + 1

\* variant: the strategy is called after the first chain was handled
ChainLoopDoneEarly(index, count) == index >= 1

\* line 166: the chain loop has handled the last chain
ChainLoopDone(index, count) == index >= count

\* variant: only failures are reported
PrintedOnlyFailures(result) == IF result = "ok" THEN << >> ELSE << result >>

\* the one message each path of the loop body prints (lines 206, 228, 234,
\* 242, 247, 261-263, 268, 273, 288-290)
Printed(result) == << result >>

\* variant: the last tick is not run
LoopConditionOffByOne(counter, n) == counter + 1 < n

\* line 95: the loop condition of simulate
LoopCondition(counter, n) == counter < n

\* ------------------------------------------------------------------ Init
Started(scenarios) ==
    /\ \E sc \in scenarios : m_chains = sc.chains /\ proposals = sc.proposals
    /\ pc = "simulate"
    /\ iterations = 0
    /\ t = 0
    /\ ci = 1
    /\ snapshot = << >>
    /\ actions = << >>
    /\ ai = 1
    /\ outcomes = << >>
    /\ proposed = 0
    /\ ticksRun = << >>
    /\ origin = << >>
    /\ credited = << >>
    /\ agedAt = [ i \in 1 .. Len(m_chains) |-> 0 - 1 ]
    /\ strategyCalls = << >>

\* the runs with amounts that are numbers
Init == Started(Scenarios)

\* the runs of a strategy that may propose an amount that is no number
InitNonFinite ==
    Started({ [ chains |-> initRoutes, proposals |-> NonFiniteActions ] })

\* ---------------------------------------------------------------- actions
\* simulate(n) is called: lines 89-95, up to the first test of the loop
Simulate ==
    /\ pc = "simulate"
    /\ \E n \in 0 .. MaxIterations : iterations' = n
    /\ t' = 0
    /\ pc' = "loop"
    /\ UNCHANGED << m_chains, proposals, ci, snapshot, actions, ai, outcomes,
                    proposed, ticksRun, origin, credited, agedAt, strategyCalls >>

\* line 95-97: the loop condition holds, tick(t) is entered
EnterTick ==
    /\ pc = "loop"
    /\ LoopCondition(t, iterations)
    /\ pc' = "chains"
    /\ ci' = 1
    /\ ticksRun' = Append(ticksRun, t)
    /\ UNCHANGED << m_chains, proposals, iterations, t, snapshot, actions, ai,
                    outcomes, proposed, origin, credited, agedAt, strategyCalls >>

\* lines 95, 100-102: the loop condition fails, simulate returns
Finish ==
    /\ pc = "loop"
    /\ ~LoopCondition(t, iterations)
    /\ pc' = "done"
    /\ UNCHANGED << m_chains, proposals, iterations, t, ci, snapshot, actions, ai,
                    outcomes, proposed, ticksRun, origin, credited, agedAt,
                    strategyCalls >>

\* lines 166-195: one iteration of the chain loop
TickChain ==
    /\ pc = "chains"
    /\ m_chains' = [ m_chains EXCEPT ![ci] = TickedChain(m_chains[ci]) ]
    /\ credited' =
         LET rel == Released(m_chains[ci].lockedBalances) IN
         [ id \in 1 .. Len(credited) |->
             IF \E k \in 1 .. Len(rel) : rel[k].id = id
             THEN Append(credited[id], t) ELSE credited[id] ]
    /\ agedAt' = [ agedAt EXCEPT ![ci] = t ]
    /\ IF ChainLoopDone(ci, Len(m_chains))
       THEN ci' = 1 /\ pc' = "strategy"
       ELSE ci' = ci + 1 /\ pc' = "chains"
    /\ UNCHANGED << proposals, iterations, t, snapshot, actions, ai, outcomes,
                    proposed, ticksRun, origin, strategyCalls >>

\* lines 198-199: the strategy fills the actions of this tick
OnTickRecalc ==
    /\ pc = "strategy"
    /\ \E n \in 0 .. (MaxProposed - proposed) :
         \E list \in [ 1 .. n -> proposals ] :
             /\ actions' = list
             /\ proposed' = proposed + n
    /\ snapshot' = m_chains
    /\ ai' = 1
    /\ outcomes' = << >>
    /\ strategyCalls' = Append(strategyCalls, t)
    /\ pc' = "actions"
    /\ UNCHANGED << m_chains, proposals, iterations, t, ci, ticksRun, origin, credited,
                    agedAt >>

\* lines 202-292: one iteration of the action loop
ExecuteAction ==
    /\ pc = "actions"
    /\ ai <= Len(actions)
    /\ LET action == actions[ai]
           result == Validate(m_chains, action)
           id     == Len(origin) + 1
       IN  /\ m_chains' = Applied(m_chains, action, id)
           /\ outcomes' = outcomes \o Printed(result)
           /\ IF result = "ok"
              THEN LET p == Lookup(m_chains, action) IN
                   /\ origin' = Append(origin,
                         [ tick   |-> t,
                           action |-> action,
                           source |-> p.pSource,
                           chain  |-> p.pDestination,
                           ticks  |-> LockTime(m_chains[p.pSource], action),
                           amount |-> LockedAmount(m_chains[p.pSource], action) ])
                   /\ credited' = Append(credited, << >>)
              ELSE UNCHANGED << origin, credited >>
    /\ ai' = NextAction(Validate(m_chains, actions[ai]), ai, Len(actions))
    /\ UNCHANGED << proposals, pc, iterations, t, ci, snapshot, actions, proposed,
                    ticksRun, agedAt, strategyCalls >>

\* line 293 and the ++t of line 95: tick returns, its locals are gone
LeaveTick ==
    /\ pc = "actions"
    /\ ai > Len(actions)
    /\ t' = t + 1
    /\ snapshot' = << >>
    /\ actions' = << >>
    /\ ai' = 1
    /\ outcomes' = << >>
    /\ pc' = "loop"
    /\ UNCHANGED << m_chains, proposals, iterations, ci, proposed, ticksRun, origin,
                    credited, agedAt, strategyCalls >>

Next ==
    \/ Simulate
    \/ EnterTick
    \/ Finish
    \/ TickChain
    \/ OnTickRecalc
    \/ ExecuteAction
    \/ LeaveTick

Spec == Init /\ [][Next]_vars

\* the run is single-threaded and every step of it is taken
FairSpec == Spec /\ WF_vars(Next)

\* the program with a strategy that may propose an amount that is no number
NonFiniteSpec == InitNonFinite /\ [][Next]_vars

\* ================================================================ claims
ChainIx == 1 .. Len(m_chains)

\* the step that handles actions[ai] is due
AtAction == pc = "actions" /\ ai <= Len(actions)

\* the last tick in which the chain loop has handled chain i (-1: none yet)
LastAged(i) ==
    CASE pc = "simulate" -> 0 - 1
      [] pc = "chains"   -> IF ci > i THEN t ELSE t - 1
      [] pc \in { "strategy", "actions" } -> t
      [] OTHER -> t - 1

InLedger(id) ==
    \E i \in ChainIx : \E k \in 1 .. Len(m_chains[i].lockedBalances) :
        m_chains[i].lockedBalances[k].id = id

RECURSIVE CreditedTo(_, _)
\* the amounts added to the balance of chain i by the entries 1 .. id
CreditedTo(i, id) ==
    IF id = 0 THEN 0
    ELSE CreditedTo(i, id - 1)
         + (IF origin[id].chain = i THEN origin[id].amount * Len(credited[id]) ELSE 0)

RECURSIVE SpentFrom(_, _)
\* the amounts taken from the balance of chain i by the accepted actions 1 .. id
SpentFrom(i, id) ==
    IF id = 0 THEN 0
    ELSE SpentFrom(i, id - 1)
         + (IF origin[id].source = i THEN origin[id].action.amount ELSE 0)

\* ---------------------------------------------------------------- C1
\* C1 (as claimed): in every reachable state each chain's orderflow pool is at
\* most its cap (1.5 x the initial value) and each chain's outflow pool is at
\* most its cap.  The code breaks it: an accepted bridge adds the amount to the
\* source's outflow pool without clamping (line 255).
C1_PoolsWithinCaps ==
    \A i \in ChainIx :
        /\ m_chains[i].currentOrderflowBal <= m_chains[i].maxOrderflowBal
        /\ m_chains[i].currentOutflowBal <= m_chains[i].maxOutflowBal

\* ---------------------------------------------------------------- C2
\* the tick at which the entry pushed at tick t0 with countdown n leaves: the
\* first aging it sees is that of tick t0 + 1, and an entry with countdown 0
\* is released by it
ReleaseTick(id) ==
    origin[id].tick + (IF origin[id].ticks = 0 THEN 1 ELSE origin[id].ticks)

\* C2 (as claimed): an entry pushed at tick t0 with countdown n, for every
\* n >= 0, is credited at tick t0 + n, exactly once, and is then no longer in
\* the ledger.
C2_ReleasedAtEnqueuePlusN ==
    \A id \in 1 .. Len(origin) :
        /\ Len(credited[id]) <= 1
        /\ \A k \in 1 .. Len(credited[id]) :
               credited[id][k] = origin[id].tick + origin[id].ticks
        /\ credited[id] # << >> => ~InLedger(id)

\* C2 (amended): an entry pushed at tick t0 with countdown n is credited at
\* tick t0 + n when n >= 1 and at tick t0 + 1 when n = 0: it is in the
\* destination's ledger until the aging of that tick and never after it, its
\* amount is added to the destination's balance exactly once, and every
\* balance is the starting balance plus the credits minus the amounts spent.
C2_ReleasedOnceAtReleaseTick ==
    /\ \A id \in 1 .. Len(origin) :
        /\ Len(credited[id]) <= 1
        /\ \A k \in 1 .. Len(credited[id]) : credited[id][k] = ReleaseTick(id)
        /\ credited[id] # << >> => ~InLedger(id)
        /\ InLedger(id) => LastAged(origin[id].chain) < ReleaseTick(id)
        /\ LastAged(origin[id].chain) >= ReleaseTick(id) => credited[id] # << >>
    /\ \A i \in ChainIx :
        m_chains[i].balance =
            m_chains[i].currentStrategyBal + CreditedTo(i, Len(origin))
                - SpentFrom(i, Len(origin))

\* an entry with a countdown of at least 1 has been released, and so has one
\* with countdown 0
C2_Witness ==
    /\ \E id \in 1 .. Len(origin) :
        /\ origin[id].ticks >= 1
        /\ credited[id] = << origin[id].tick + origin[id].ticks >>
        /\ ~InLedger(id)
    /\ \E id \in 1 .. Len(origin) :
        /\ origin[id].ticks = 0
        /\ credited[id] = << origin[id].tick + 1 >>

\* ---------------------------------------------------------------- C3
\* the chain that carries a name (chain names are unique)
ChainNamed(name) == CHOOSE i \in ChainIx : m_chains[i].chainName = name

\* the pool of the destination an action draws from
DestinationPool(chain, action) ==
    IF action.type = "bridge" THEN chain.currentOutflowBal
    ELSE chain.currentOrderflowBal

\* this step handles actions[ai] and accepts it
AcceptsAction == AtAction /\ Len(outcomes') = ai /\ outcomes'[ai] = "ok"

\* this step handles actions[ai] and rejects it
RejectsAction == AtAction /\ Len(outcomes') = ai /\ outcomes'[ai] # "ok"

\* C3 (as claimed): for every accepted action the decrease of the source's
\* balance is the sum of the decrease of the destination pool, the amount
\* enqueued as locked settlement and the gas fee (stated for the bridge, where
\* no surplus multiplier enters).
C3_DecreaseIsPoolPlusLockedPlusFee ==
    [][ AcceptsAction =>
          LET a == actions[ai]
              s == ChainNamed(a.source)
              d == ChainNamed(a.destination)
              new == m_chains'[d].lockedBalances[Len(m_chains'[d].lockedBalances)]
          IN  a.type = "bridge" =>
                m_chains[s].balance - m_chains'[s].balance =
                    (DestinationPool(m_chains[d], a) - DestinationPool(m_chains'[d], a))
                    + new.amount + m_chains[s].params.gasCost ]_vars

\* C3 (amended): for every accepted action the decrease of the source's
\* balance is the action's amount and equals the decrease of the destination
\* pool; for a bridge it also equals the enqueued locked amount plus the gas
\* fee, and for an execute the enqueued locked amount is (decrease - gas fee)
\* x executionSurplus; exactly one entry is enqueued, on the destination.
C3_DecreaseIsLockedPlusFee ==
    [][ AcceptsAction =>
          LET a == actions[ai]
              s == ChainNamed(a.source)
              d == ChainNamed(a.destination)
              new == m_chains'[d].lockedBalances[Len(m_chains'[d].lockedBalances)]
              decrease == m_chains[s].balance - m_chains'[s].balance
              fee == m_chains[s].params.gasCost
          IN  /\ decrease = a.amount
              /\ decrease =
                    DestinationPool(m_chains[d], a) - DestinationPool(m_chains'[d], a)
              /\ Len(m_chains'[d].lockedBalances) = Len(m_chains[d].lockedBalances) + 1
              /\ a.type = "bridge" => decrease = new.amount + fee
              /\ a.type = "execute" =>
                    new.amount =
                        TimesSurplus(decrease - fee, m_chains[s].params.executionSurplus)
      ]_vars

\* a bridge and an execute have been accepted
C3_Witness ==
    /\ \E id \in 1 .. Len(origin) : origin[id].action.type = "bridge"
    /\ \E id \in 1 .. Len(origin) : origin[id].action.type = "execute"

\* ---------------------------------------------------------------- C4
\* C4: a rejected action changes no chain (balance, pools, ledger), and an
\* action that repeats the rejected action before it is rejected with the
\* same reason.
C4_RejectionIsIdempotent ==
    [][ /\ RejectsAction => m_chains' = m_chains /\ origin' = origin
        /\ ( /\ AtAction
             /\ ai > 1
             /\ actions[ai - 1] = actions[ai]
             /\ outcomes[ai - 1] # "ok" )
           => ( /\ Len(outcomes') = ai
                /\ outcomes'[ai] = outcomes[ai - 1]
                /\ m_chains' = m_chains )
      ]_vars

\* the same action was rejected twice in a row for insufficient funds, and the
\* chains are those the strategy saw
C4_Witness ==
    /\ pc = "actions"
    /\ Len(outcomes) = 2
    /\ actions[1] = actions[2]
    /\ outcomes = << "InsufficientSourceFunds", "InsufficientSourceFunds" >>
    /\ m_chains = snapshot

\* ---------------------------------------------------------------- C5
KnownName(name) == \E i \in ChainIx : m_chains[i].chainName = name

\* C5: the outcomes are those of the actions in the strategy's order, and a
\* later action is checked against the balances the earlier accepted actions
\* of the tick left: of two actions on the same source that each need more
\* than half of the balance the strategy saw, the first being accepted, the
\* second is rejected for insufficient source funds.
C5_LaterActionSeesEarlierEffect ==
    pc = "actions" =>
        /\ Len(outcomes) = ai - 1
        /\ Len(outcomes) <= Len(actions)
        /\ \A i \in 1 .. Len(outcomes) : \A j \in 1 .. Len(outcomes) :
             ( /\ i < j
               /\ outcomes[i] = "ok"
               /\ actions[i].source = actions[j].source
               /\ actions[j].destination # actions[j].source
               /\ KnownName(actions[j].destination)
               /\ 2 * actions[i].amount
                      > snapshot[ChainNamed(actions[i].source)].balance
               /\ 2 * actions[j].amount
                      > snapshot[ChainNamed(actions[i].source)].balance )
             => outcomes[j] = "InsufficientSourceFunds"

\* two such actions have been handled, and the second alone would have passed
C5_Witness ==
    /\ pc = "actions"
    /\ Len(outcomes) = 2
    /\ outcomes = << "ok", "InsufficientSourceFunds" >>
    /\ actions[1].source = actions[2].source
    /\ 2 * actions[1].amount > snapshot[ChainNamed(actions[1].source)].balance
    /\ 2 * actions[2].amount > snapshot[ChainNamed(actions[1].source)].balance
    /\ Validate(snapshot, actions[2]) = "ok"

\* ---------------------------------------------------------------- C6
ScenarioBridge == Action("bridge", "A", "B", 2 * Scale)

\* the ids of the entries of a ledger
Ids(lockedBalances) == { lockedBalances[k].id : k \in 1 .. Len(lockedBalances) }

\* the entries of a ledger whose id is in a set
RECURSIVE AmountOf(_, _)
AmountOf(lockedBalances, ids) ==
    IF lockedBalances = << >> THEN 0
    ELSE (IF Head(lockedBalances).id \in ids THEN Head(lockedBalances).amount ELSE 0)
         + AmountOf(Tail(lockedBalances), ids)

\* C6: with A's balance 10, gas 0.0001 and bridging time 4 and B's outflow
\* pool 30, bridge A->B 2 is accepted, A's balance becomes 8 and B's ledger
\* gains the entry (1.9999, 4); that entry stays in B's ledger during the next
\* three ticks and leaves it in the aging of the fourth, which adds its 1.9999
\* to B's balance.
C6_SimpleBridge ==
    [][ LET A == ChainNamed("A")
            B == ChainNamed("B")
        IN  /\ ( /\ AtAction
                 /\ actions[ai] = ScenarioBridge
                 /\ m_chains[A].balance = 10 * Scale
                 /\ m_chains[A].params.gasCost = 10
                 /\ m_chains[A].params.bridgingTime = 4
                 /\ m_chains[B].currentOutflowBal = 30 * Scale )
               => ( /\ Len(outcomes') = ai /\ outcomes'[ai] = "ok"
                    /\ m_chains'[A].balance = 8 * Scale
                    /\ m_chains'[B].lockedBalances =
                         Append(m_chains[B].lockedBalances,
                                [ amount |-> 199990, ticks |-> 4,
                                  id |-> Len(origin) + 1 ]) )
            /\ \A id \in Ids(m_chains[B].lockedBalances) :
                 ( /\ pc = "chains" /\ ci = B
                   /\ origin[id].action = ScenarioBridge
                   /\ origin[id].ticks = 4 )
                 => LET gone == Ids(m_chains[B].lockedBalances)
                                   \ Ids(m_chains'[B].lockedBalances)
                    IN  /\ t <= origin[id].tick + 4
                        /\ m_chains'[B].balance =
                             m_chains[B].balance
                               + AmountOf(m_chains[B].lockedBalances, gone)
                        /\ id \in gone <=> t = origin[id].tick + 4
                        /\ origin[id].amount = 199990
      ]_vars

\* the scenario has run to its end: the bridge was the first accepted action,
\* at tick 0 with B's outflow pool at 30 and A's balance at 10, and at tick 4
\* its 1.9999 were added to B's starting balance of 6
C6_Witness ==
    /\ Len(origin) = 1
    /\ origin[1].action = ScenarioBridge
    /\ origin[1].tick = 0
    /\ m_chains[ChainNamed("B")].maxOutflowBal = 45 * Scale
    /\ m_chains[ChainNamed("B")].params.outflowRegenPerTick = 0
    /\ credited[1] = << 4 >>
    /\ m_chains[ChainNamed("A")].balance = 8 * Scale
    /\ m_chains[ChainNamed("B")].balance = 6 * Scale + 199990
    /\ m_chains[ChainNamed("B")].lockedBalances = << >>

\* ---------------------------------------------------------------- C7
\* an action between two distinct configured chains
BetweenKnownChains(action) ==
    /\ action.source # action.destination
    /\ KnownName(action.source)
    /\ KnownName(action.destination)

\* C7 (as claimed): an action between two distinct known chains whose amount
\* is below the source's gas cost is rejected with BelowGasCost.
C7_ShortfallIsBelowGasCost ==
    pc = "actions" =>
        \A k \in 1 .. Len(outcomes) :
            ( /\ BetweenKnownChains(actions[k])
              /\ actions[k].amount
                   < m_chains[ChainNamed(actions[k].source)].params.gasCost )
            => outcomes[k] = "BelowGasCost"

\* C7 (amended): an action between two distinct known chains whose amount is
\* below the source's gas cost is rejected and changes no balance, pool or
\* ledger; the reason is BelowGasCost when the source's balance and the
\* destination's pool are at least the amount, InsufficientSourceFunds when
\* the source's balance is below the amount, and otherwise
\* InsufficientDestinationLiquidity.
C7_ShortfallIsRejected ==
    [][ ( /\ AtAction
          /\ BetweenKnownChains(actions[ai])
          /\ actions[ai].amount
               < m_chains[ChainNamed(actions[ai].source)].params.gasCost )
        => LET a == actions[ai]
               src == m_chains[ChainNamed(a.source)]
               dst == m_chains[ChainNamed(a.destination)]
           IN  /\ m_chains' = m_chains
               /\ origin' = origin
               /\ Len(outcomes') = ai
               /\ outcomes'[ai] =
                    IF src.balance < a.amount THEN "InsufficientSourceFunds"
                    ELSE IF DestinationPool(dst, a) < a.amount
                         THEN "InsufficientDestinationLiquidity"
                         ELSE "BelowGasCost"
      ]_vars

\* 0.00005 against a gas cost of 0.0001: rejected for the gas cost where the
\* source holds funds, and for the funds where it holds none
C7_Witness ==
    /\ pc = "actions"
    /\ Len(outcomes) = 2
    /\ actions[1].amount = 5
    /\ actions[2].amount = 5
    /\ BetweenKnownChains(actions[1])
    /\ BetweenKnownChains(actions[2])
    /\ outcomes = << "BelowGasCost", "InsufficientSourceFunds" >>
    /\ m_chains = snapshot

\* ---------------------------------------------------------------- C8
\* C8: an action whose source name equals its destination name is rejected
\* with SameChainError and changes nothing, whatever its kind and amount and
\* whether or not the name is that of a chain.
C8_SameChainRejected ==
    [][ ( AtAction /\ actions[ai].source = actions[ai].destination )
        => ( /\ Len(outcomes') = ai
             /\ outcomes'[ai] = "SameChainError"
             /\ m_chains' = m_chains
             /\ origin' = origin )
      ]_vars

\* X->X, X no chain, has been rejected as a same-chain action
C8_Witness ==
    /\ pc = "actions"
    /\ \E k \in 1 .. Len(outcomes) :
         /\ actions[k].source = actions[k].destination
         /\ ~KnownName(actions[k].source)
         /\ outcomes[k] = "SameChainError"
    /\ m_chains = snapshot

\* ---------------------------------------------------------------- C9
\* C9: simulate(iterations) calls tick for t = 0 .. iterations-1, each once
\* and in this order, and then returns, whatever was rejected on the way.
C9_RunsEveryTickThenEnds ==
    /\ <>(pc = "done")
    /\ [](ticksRun = [ i \in 1 .. Len(ticksRun) |-> i - 1 ])
    /\ [](pc # "simulate" => Len(ticksRun) <= iterations)
    /\ [](pc = "done" => Len(ticksRun) = iterations)

\* a run of at least two ticks has ended in which every proposed action was
\* rejected
C9_Witness ==
    /\ pc = "done"
    /\ iterations >= 2
    /\ Len(ticksRun) = iterations
    /\ proposed >= 2
    /\ origin = << >>

\* ---------------------------------------------------------------- C10
\* the actions handled so far in this tick that were accepted, in order
RECURSIVE AcceptedUpTo(_)
AcceptedUpTo(k) ==
    IF k = 0 THEN << >>
    ELSE IF outcomes[k] = "ok" THEN Append(AcceptedUpTo(k - 1), actions[k])
    ELSE AcceptedUpTo(k - 1)

\* the chains after a list of actions of which each is accepted in its turn;
\* << >> if one of them is not
RECURSIVE RunAccepted(_, _, _)
RunAccepted(chains, list, id) ==
    IF list = << >> THEN chains
    ELSE IF Validate(chains, Head(list)) # "ok" THEN << >>
    ELSE RunAccepted(Applied(chains, Head(list), id), Tail(list), id + 1)

\* C10: a rejection is local.  At every point of the action loop the chains
\* are what the accepted actions alone, handled in their order from the
\* state the strategy saw, produce, each of them being accepted there too;
\* every action of the list gets its outcome; and the step that rejects an
\* action goes on to the next action of the same tick.
C10_FailuresAreLocal ==
    /\ [](pc = "actions" =>
            /\ Len(outcomes) = Min(ai - 1, Len(actions))
            /\ ai > Len(actions) => Len(outcomes) = Len(actions)
            /\ LET acc == AcceptedUpTo(Len(outcomes))
               IN  m_chains = RunAccepted(snapshot, acc, Len(origin) - Len(acc) + 1))
    /\ [][ RejectsAction =>
             /\ ai' = ai + 1
             /\ << pc, t, iterations, actions, snapshot >>'
                  = << pc, t, iterations, actions, snapshot >> ]_vars

\* a list in which a rejected action came before an accepted one was handled
\* to its end
C10_Witness ==
    /\ pc = "actions"
    /\ ai > Len(actions)
    /\ Len(outcomes) = 2
    /\ outcomes[1] \notin { "ok" }
    /\ outcomes[2] = "ok"

\* every chain was handled by the chain loop of the current tick
AllChainsTicked == \A i \in 1 .. Len(m_chains) : agedAt[i] = t

\* C11: per-tick phase order.  The calls of the strategy are one per tick, in
\* the order of the ticks; the strategy is called when the chain loop of the
\* tick has regenerated and aged every chain and no action of the tick has an
\* outcome yet; actions are handled only after the call of their tick; and
\* while the chain loop runs, the chains before the loop index carry the
\* current tick and the others the previous one, so that no phase of one tick
\* overlaps a phase of another.
C11_PhaseOrder ==
    /\ \A k \in 1 .. Len(strategyCalls) : strategyCalls[k] = k - 1
    /\ Len(strategyCalls) = IF pc = "actions" THEN t + 1 ELSE t
    /\ pc = "strategy" => AllChainsTicked /\ outcomes = << >> /\ actions = << >>
    /\ pc = "actions" => AllChainsTicked
    /\ pc = "chains" =>
          /\ outcomes = << >> /\ actions = << >>
          /\ \A i \in 1 .. Len(m_chains) :
                agedAt[i] = IF i < ci THEN t ELSE t - 1
    /\ pc \in { "simulate", "loop", "done" } =>
          /\ outcomes = << >> /\ actions = << >>
          /\ \A i \in 1 .. Len(m_chains) : agedAt[i] = t - 1

\* the second tick handles an action after its own call of the strategy
C11_Witness ==
    /\ pc = "actions"
    /\ t = 1
    /\ strategyCalls = << 0, 1 >>
    /\ Len(outcomes) >= 1

\* ---------------------------------------------------------------- C12
RECURSIVE ReleasedTo(_, _, _)
\* the amounts of the entries 1 .. id that the aging of tick `tick` added to
\* the balance of chain i
ReleasedTo(i, id, tick) ==
    IF id = 0 THEN 0
    ELSE ReleasedTo(i, id - 1, tick)
         + (IF origin[id].chain = i
            THEN origin[id].amount
                 * Cardinality({ k \in 1 .. Len(credited[id]) : credited[id][k] = tick })
            ELSE 0)

RECURSIVE SpentInTick(_, _)
\* the amounts the accepted ones of the first k actions of the current tick
\* took from the balance of chain i
SpentInTick(i, k) ==
    IF k = 0 THEN 0
    ELSE SpentInTick(i, k - 1)
         + (IF outcomes[k] = "ok" /\ m_chains[i].chainName = actions[k].source
            THEN actions[k].amount ELSE 0)

RECURSIVE ReleasedBefore(_, _)
\* the amounts added to the balance of chain i by the agings of the ticks
\* before `tick`
ReleasedBefore(i, tick) ==
    IF tick <= 0 THEN 0
    ELSE ReleasedBefore(i, tick - 1) + ReleasedTo(i, Len(origin), tick - 1)

RECURSIVE SpentBefore(_, _, _)
\* the amounts the accepted actions 1 .. id of the ticks before `tick` took
\* from the balance of chain i
SpentBefore(i, id, tick) ==
    IF id = 0 THEN 0
    ELSE SpentBefore(i, id - 1, tick)
         + (IF origin[id].source = i /\ origin[id].tick < tick
            THEN origin[id].action.amount ELSE 0)

\* C12: released funds are visible in the tick of their release.  The balance
\* of a chain in the snapshot handed to the strategy at tick t is what the
\* chain had after the ticks before t plus the amounts released from its
\* ledger by the aging of tick t, these entries being out of the snapshot's
\* ledger; and the solvency check of every action of tick t compares the
\* amount with that balance less what the accepted earlier actions of tick t
\* spent from it.
C12_ReleasedFundsVisible ==
    pc = "actions" =>
        /\ \A i \in ChainIx :
              /\ snapshot[i].balance =
                    m_chains[i].currentStrategyBal + ReleasedBefore(i, t)
                        - SpentBefore(i, Len(origin), t)
                        + ReleasedTo(i, Len(origin), t)
              /\ \A id \in 1 .. Len(origin) :
                    t \in { credited[id][k] : k \in 1 .. Len(credited[id]) }
                        => id \notin Ids(snapshot[i].lockedBalances)
        /\ \A k \in 1 .. Len(outcomes) :
              BetweenKnownChains(actions[k]) =>
                  LET s == ChainNamed(actions[k].source) IN
                  ( outcomes[k] = "InsufficientSourceFunds"
                      <=> actions[k].amount > snapshot[s].balance - SpentInTick(s, k - 1) )

\* an action was accepted whose amount the source could pay only with what
\* the aging of the same tick had released to it
C12_Witness ==
    /\ pc = "actions"
    /\ \E k \in 1 .. Len(outcomes) :
          /\ outcomes[k] = "ok"
          /\ LET s == ChainNamed(actions[k].source) IN
              /\ ReleasedTo(s, Len(origin), t) > 0
              /\ actions[k].amount
                    > snapshot[s].balance - SpentInTick(s, k - 1)
                        - ReleasedTo(s, Len(origin), t)

\* ---------------------------------------------------------------- C13
\* the fields of chain i that no action changes
SameFixedFields(i) ==
    /\ m_chains'[i].chainName = m_chains[i].chainName
    /\ m_chains'[i].params = m_chains[i].params
    /\ m_chains'[i].currentStrategyBal = m_chains[i].currentStrategyBal
    /\ m_chains'[i].maxOrderflowBal = m_chains[i].maxOrderflowBal
    /\ m_chains'[i].maxOutflowBal = m_chains[i].maxOutflowBal

\* C13: the effect of an accepted bridge of `amount` from S to D.  D's
\* outflow pool goes down by amount, S's outflow pool goes up by the full
\* amount, S's balance goes down by amount, one entry (amount - S.gasCost,
\* S.bridgingTime) is appended to D's ledger, and nothing else changes: not
\* the orderflow pools, not D's balance, not S's ledger, not a third chain.
C13_BridgeEffect ==
    [][ (AcceptsAction /\ actions[ai].type = "bridge") =>
          LET amount == actions[ai].amount
              S == ChainNamed(actions[ai].source)
              D == ChainNamed(actions[ai].destination)
          IN  /\ m_chains'[D].currentOutflowBal = m_chains[D].currentOutflowBal - amount
              /\ m_chains'[S].currentOutflowBal = m_chains[S].currentOutflowBal + amount
              /\ m_chains'[S].balance = m_chains[S].balance - amount
              /\ m_chains'[D].lockedBalances =
                    Append(m_chains[D].lockedBalances,
                           [ amount |-> amount - m_chains[S].params.gasCost,
                             ticks  |-> m_chains[S].params.bridgingTime,
                             id     |-> Len(origin) + 1 ])
              /\ m_chains'[D].balance = m_chains[D].balance
              /\ m_chains'[S].lockedBalances = m_chains[S].lockedBalances
              /\ Len(m_chains') = Len(m_chains)
              /\ \A i \in ChainIx :
                    /\ SameFixedFields(i)
                    /\ m_chains'[i].currentOrderflowBal = m_chains[i].currentOrderflowBal
                    /\ i \notin { S, D } => m_chains'[i] = m_chains[i] ]_vars

\* a bridge was accepted between chains whose gas costs and bridging times
\* differ, and its entry is the last one of the destination's ledger
C13_Witness ==
    /\ pc = "actions"
    /\ ai > 1
    /\ Len(outcomes) = ai - 1
    /\ outcomes[ai - 1] = "ok"
    /\ actions[ai - 1].type = "bridge"
    /\ LET S == ChainNamed(actions[ai - 1].source)
           D == ChainNamed(actions[ai - 1].destination)
       IN  /\ m_chains[S].params.gasCost # m_chains[D].params.gasCost
           /\ m_chains[S].params.bridgingTime # m_chains[D].params.bridgingTime
           /\ m_chains[D].lockedBalances # << >>
           /\ m_chains[D].lockedBalances[Len(m_chains[D].lockedBalances)].id = Len(origin)
           /\ m_chains[D].lockedBalances[Len(m_chains[D].lockedBalances)].ticks
                 = m_chains[S].params.bridgingTime

Leaving(i) ==
    SelectSeq(m_chains[i].lockedBalances,
              LAMBDA e : e.id \notin Ids(m_chains'[i].lockedBalances))

\* C15: no double credit.  The entry of an accepted action is in the ledger
\* of the action's destination only, which is not its source, and it is
\* credited at most once; the step that accepts an action takes the amount
\* from the source's balance, leaves the source's ledger and every other
\* balance as they are and credits nothing; and a balance grows only in the
\* chain loop, for the chain being aged, by the amounts of the entries that
\* leave that chain's own ledger in the step.
C15_NoDoubleCredit ==
    /\ [](\A i \in ChainIx : \A k \in 1 .. Len(m_chains[i].lockedBalances) :
            LET id == m_chains[i].lockedBalances[k].id IN
            /\ id \in 1 .. Len(origin)
            /\ origin[id].chain = i
            /\ origin[id].source # i
            /\ credited[id] = << >>)
    /\ [](\A id \in 1 .. Len(origin) : Len(credited[id]) <= 1)
    /\ [][ AcceptsAction =>
             LET S == ChainNamed(actions[ai].source) IN
             /\ m_chains'[S].balance = m_chains[S].balance - actions[ai].amount
             /\ m_chains'[S].balance < m_chains[S].balance
             /\ m_chains'[S].lockedBalances = m_chains[S].lockedBalances
             /\ \A i \in ChainIx \ { S } : m_chains'[i].balance = m_chains[i].balance
             /\ credited' = Append(credited, << >>) ]_vars
    /\ [][ \A i \in ChainIx :
             m_chains'[i].balance > m_chains[i].balance =>
                 /\ pc = "chains" /\ i = ci
                 /\ m_chains'[i].balance
                       = m_chains[i].balance + SumAmounts(Leaving(i))
                 /\ \A k \in 1 .. Len(Leaving(i)) :
                       /\ credited[Leaving(i)[k].id] = << >>
                       /\ credited'[Leaving(i)[k].id] = << t >> ]_vars

\* the entry of an accepted action has been credited to the destination, and
\* the source, which paid, has received nothing
C15_Witness ==
    \E id \in 1 .. Len(origin) :
        /\ Len(credited[id]) = 1
        /\ ~InLedger(id)
        /\ CreditedTo(origin[id].chain, Len(origin)) = origin[id].amount
        /\ CreditedTo(origin[id].source, Len(origin)) = 0
        /\ m_chains[origin[id].source].balance
              = m_chains[origin[id].source].currentStrategyBal
                  - SpentFrom(origin[id].source, Len(origin))
        /\ m_chains[origin[id].chain].balance
              >= m_chains[origin[id].chain].currentStrategyBal

\* ---------------------------------------------------------------- C16
\* what the loop body can print for an action: the success message or one of
\* the five failures
Outcomes ==
    { "ok", "SameChainError", "UnknownChainError", "InsufficientSourceFunds",
      "InsufficientDestinationLiquidity", "BelowGasCost" }

\* the entries pushed in the current tick
PushedInTick == { id \in 1 .. Len(origin) : origin[id].tick = t }

\* C16: no silent drop.  In the action loop the k-th action handled has the
\* k-th outcome and no other: there are as many outcomes as actions handled,
\* each is the success or one of the five reasons, the successes are as many
\* as the entries pushed in the tick, and the tick is left only when every
\* action of the list has its outcome.  Outside the action loop there is no
\* action and no outcome.
C16_OneOutcomePerAction ==
    /\ pc = "actions" =>
          /\ ai \in 1 .. Len(actions) + 1
          /\ Len(outcomes) = ai - 1
          /\ \A k \in 1 .. Len(outcomes) : outcomes[k] \in Outcomes
          /\ Cardinality({ k \in 1 .. Len(outcomes) : outcomes[k] = "ok" })
                = Cardinality(PushedInTick)
          /\ \A k \in 1 .. Len(outcomes) :
                outcomes[k] # "ok" =>
                    outcomes[k] = Validate(RunAccepted(snapshot, AcceptedUpTo(k - 1),
                                                       Len(origin) + 1),
                                           actions[k])
    /\ pc # "actions" => actions = << >> /\ outcomes = << >>

\* a tick whose two actions were handled: the first accepted, the second
\* rejected with its reason
C16_Witness ==
    /\ pc = "actions"
    /\ ai = Len(actions) + 1
    /\ Len(actions) = 2
    /\ outcomes[1] = "ok"
    /\ outcomes[2] \in Outcomes \ { "ok" }

\* ---------------------------------------------------------------- C17
\* the checks of an action, each on its own, in the state before the action
SameChainFails(action) == action.source = action.destination

ResolutionFails(action) == ~KnownName(action.source) \/ ~KnownName(action.destination)

SolvencyFails(action) ==
    m_chains[ChainNamed(action.source)].balance < action.amount

LiquidityFails(action) ==
    DestinationPool(m_chains[ChainNamed(action.destination)], action) < action.amount

GasFails(action) ==
    action.amount < m_chains[ChainNamed(action.source)].params.gasCost

\* C17: check precedence.  The outcome of an action is the reason of the
\* first check that fails in the order same-chain, chain resolution, source
\* solvency, destination pool liquidity, gas cost, whatever the later checks
\* would say, and the success when none fails; the liquidity and the gas
\* check decide only when the first three pass.
C17_CheckPrecedence ==
    [][ AtAction =>
          LET action == actions[ai]
              reason == outcomes'[ai]
          IN  /\ Len(outcomes') = ai
              /\ SameChainFails(action) => reason = "SameChainError"
              /\ ~SameChainFails(action) /\ ResolutionFails(action)
                    => reason = "UnknownChainError"
              /\ ~SameChainFails(action) /\ ~ResolutionFails(action) =>
                    /\ SolvencyFails(action) => reason = "InsufficientSourceFunds"
                    /\ ~SolvencyFails(action) /\ LiquidityFails(action)
                          => reason = "InsufficientDestinationLiquidity"
                    /\ ~SolvencyFails(action) /\ ~LiquidityFails(action) /\ GasFails(action)
                          => reason = "BelowGasCost"
                    /\ ~SolvencyFails(action) /\ ~LiquidityFails(action) /\ ~GasFails(action)
                          => reason = "ok"
              /\ reason \in { "InsufficientDestinationLiquidity", "BelowGasCost", "ok" }
                    => /\ ~SameChainFails(action) /\ ~ResolutionFails(action)
                       /\ ~SolvencyFails(action) ]_vars

\* a bridge that fails both the solvency check and the liquidity check was
\* rejected for the source's funds
C17_Witness ==
    /\ pc = "actions"
    /\ ai > 1
    /\ Len(outcomes) = ai - 1
    /\ outcomes[ai - 1] = "InsufficientSourceFunds"
    /\ actions[ai - 1].type = "bridge"
    /\ BetweenKnownChains(actions[ai - 1])
    /\ SolvencyFails(actions[ai - 1])
    /\ LiquidityFails(actions[ai - 1])

\* ---------------------------------------------------------------- C18
\* C18 (as claimed): the iteration of the chain loop for a chain sets each of
\* its two pools to min(pool + rate, cap), which is an increase of the pool
\* by at most its rate, and changes neither the balance, but for the amounts
\* released by the aging of the same iteration, nor the amounts in the
\* ledger; this before any action of the tick.  The code breaks the
\* increase: an accepted bridge leaves the source's outflow pool above its
\* cap (C1), and the next min(pool + rate, cap) takes it down to the cap.
C18_RegenerationIncreasesPools ==
    [][ pc = "chains" =>
          LET old == m_chains[ci]
              new == m_chains'[ci]
          IN  /\ outcomes = << >> /\ actions = << >>
              /\ new.currentOrderflowBal
                    = Min(old.currentOrderflowBal + old.params.orderflowRegenPerTick,
                          old.maxOrderflowBal)
              /\ new.currentOutflowBal
                    = Min(old.currentOutflowBal + old.params.outflowRegenPerTick,
                          old.maxOutflowBal)
              /\ new.currentOrderflowBal >= old.currentOrderflowBal
              /\ new.currentOutflowBal >= old.currentOutflowBal
              /\ new.balance = old.balance + SumAmounts(Leaving(ci))
              /\ \A k \in 1 .. Len(new.lockedBalances) :
                    \E j \in 1 .. Len(old.lockedBalances) :
                        /\ old.lockedBalances[j].id = new.lockedBalances[k].id
                        /\ old.lockedBalances[j].amount = new.lockedBalances[k].amount
              /\ \A i \in ChainIx \ { ci } : m_chains'[i] = m_chains[i] ]_vars

\* ---------------------------------------------------------------- C19
\* the entries of a ledger that an aging keeps, and those it takes out
Staying(lockedBalances) == SelectSeq(lockedBalances, LAMBDA e : e.ticks >= 2)

Due(lockedBalances) == SelectSeq(lockedBalances, LAMBDA e : e.ticks <= 1)

\* C19: the aging step.  The iteration of the chain loop for a chain keeps
\* the entries of its ledger that had at least 2 ticks left, in their order,
\* with their amounts and one tick less, takes out the others (1 tick left,
\* or 0: floored) and adds their amounts to the chain's balance in the same
\* step; it touches no other chain, and no other step changes the entries
\* of a ledger or takes one out.  So an entry in a ledger has its countdown
\* less one for each tick in which its chain was aged since it was pushed.
C19_AgingStep ==
    /\ [][ pc = "chains" =>
             LET old == m_chains[ci].lockedBalances
                 new == m_chains'[ci].lockedBalances
             IN  /\ Len(new) = Len(Staying(old))
                 /\ \A k \in 1 .. Len(new) :
                       new[k] = [ Staying(old)[k] EXCEPT !.ticks = @ - 1 ]
                 /\ m_chains'[ci].balance = m_chains[ci].balance + SumAmounts(Due(old))
                 /\ \A k \in 1 .. Len(Due(old)) :
                       credited'[Due(old)[k].id] = Append(credited[Due(old)[k].id], t)
                 /\ \A i \in ChainIx \ { ci } : m_chains'[i] = m_chains[i] ]_vars
    /\ [][ pc # "chains" =>
             \A i \in ChainIx :
                 LET old == m_chains[i].lockedBalances IN
                 /\ Len(m_chains'[i].lockedBalances) >= Len(old)
                 /\ SubSeq(m_chains'[i].lockedBalances, 1, Len(old)) = old ]_vars
    /\ [](\A i \in ChainIx : \A k \in 1 .. Len(m_chains[i].lockedBalances) :
            LET e == m_chains[i].lockedBalances[k] IN
            e.ticks = origin[e.id].ticks - (agedAt[i] - origin[e.id].tick))

\* the aging of a chain has released one entry of its ledger and kept
\* another, pushed in an earlier tick, with fewer ticks than it had
C19_Witness ==
    \E i \in ChainIx :
        /\ pc \in { "chains", "strategy" }
        /\ agedAt[i] = t
        /\ \E id \in 1 .. Len(origin) :
              origin[id].chain = i /\ credited[id] = << t >>
        /\ \E k \in 1 .. Len(m_chains[i].lockedBalances) :
              LET e == m_chains[i].lockedBalances[k] IN
              /\ origin[e.id].tick < t
              /\ e.ticks >= 1
              /\ e.ticks < origin[e.id].ticks
              /\ e.amount = origin[e.id].amount

\* ---------------------------------------------------------------- C20
\* the places (chain, position) at which the entry `id` is in a ledger
PlacesOf(id) ==
    { << i, k >> \in ChainIx \X (1 .. MaxProposed + 1) :
        /\ k <= Len(m_chains[i].lockedBalances)
        /\ m_chains[i].lockedBalances[k].id = id }

\* C20: no coalescing.  The step that accepts an action appends one new
\* entry to the ledger of the destination and leaves every entry that was
\* in a ledger as it was; every entry ever pushed is either at exactly one
\* place of the ledger of its destination, with the amount it was pushed
\* with, or it has been released, once, at its own release tick; and the
\* ledgers hold no entry that was not pushed by an accepted action.
C20_NoCoalescing ==
    /\ [][ AcceptsAction =>
             LET D == ChainNamed(actions[ai].destination) IN
             /\ Len(m_chains'[D].lockedBalances) = Len(m_chains[D].lockedBalances) + 1
             /\ SubSeq(m_chains'[D].lockedBalances, 1, Len(m_chains[D].lockedBalances))
                   = m_chains[D].lockedBalances
             /\ m_chains'[D].lockedBalances[Len(m_chains'[D].lockedBalances)].id
                   = Len(origin) + 1
             /\ Len(origin') = Len(origin) + 1
             /\ \A i \in ChainIx \ { D } :
                   m_chains'[i].lockedBalances = m_chains[i].lockedBalances ]_vars
    /\ [](\A id \in 1 .. Len(origin) :
            IF credited[id] = << >>
            THEN /\ Cardinality(PlacesOf(id)) = 1
                 /\ \A p \in PlacesOf(id) :
                       /\ p[1] = origin[id].chain
                       /\ m_chains[p[1]].lockedBalances[p[2]].amount = origin[id].amount
            ELSE /\ PlacesOf(id) = { }
                 /\ credited[id] = << ReleaseTick(id) >>)
    /\ [](\A i \in ChainIx :
            /\ Len(m_chains[i].lockedBalances) <= MaxProposed
            /\ \A k \in 1 .. Len(m_chains[i].lockedBalances) :
                  m_chains[i].lockedBalances[k].id \in 1 .. Len(origin))

\* two entries pushed on the same chain in the same tick with the same
\* countdown have been aged together and are still two, each with its amount
C20_Witness ==
    \E i \in ChainIx :
        /\ Len(m_chains[i].lockedBalances) = 2
        /\ LET e1 == m_chains[i].lockedBalances[1]
               e2 == m_chains[i].lockedBalances[2]
           IN  /\ e1.id # e2.id
               /\ origin[e1.id].tick = origin[e2.id].tick
               /\ e1.ticks = e2.ticks
               /\ e1.ticks < origin[e1.id].ticks
               /\ e1.amount = origin[e1.id].amount
               /\ e2.amount = origin[e2.id].amount

\* ---------------------------------------------------------------- C21
\* chain i is neither the source nor the destination of the action
ThirdChain(i, action) ==
    /\ i \in ChainIx
    /\ m_chains[i].chainName \notin { action.source, action.destination }

NonNegative(x) == ~IsNaN(x) /\ x >= 0

\* x <= 0 for a double: false when x is no number
AtMostZero(x) == ~IsNaN(x) /\ x <= 0

\* C22 (as claimed): whatever actions the strategy proposes, every chain's
\* balance, orderflow pool and outflow pool and every amount in a ledger is
\* >= 0 in every reachable state, and no accepted action has an amount
\* <= 0.  The code breaks it: every check of an action is a comparison with
\* the amount, each of them false when the amount is no number, so that such
\* an action is accepted and its amount written to balances, pools and
\* ledger.
C22_NonNegative ==
    /\ \A i \in ChainIx :
          /\ NonNegative(m_chains[i].balance)
          /\ NonNegative(m_chains[i].currentOrderflowBal)
          /\ NonNegative(m_chains[i].currentOutflowBal)
          /\ \A k \in 1 .. Len(m_chains[i].lockedBalances) :
                NonNegative(m_chains[i].lockedBalances[k].amount)
    /\ \A id \in 1 .. Len(origin) : ~AtMostZero(origin[id].action.amount)

\* ---------------------------------------------------------------- C23
\* a <= b for doubles: false when one of them is no number
AtMost(a, b) == ~IsNaN(a) /\ ~IsNaN(b) /\ a <= b

\* what the claim says of the chains handed to the strategy: the pools are
\* within their caps, and every entry of a ledger has at least 1 tick left
\* and at most the countdown it was pushed with
ConsistentForStrategy(chains) ==
    \A i \in 1 .. Len(chains) :
        /\ AtMost(chains[i].currentOrderflowBal, chains[i].maxOrderflowBal)
        /\ AtMost(chains[i].currentOutflowBal, chains[i].maxOutflowBal)
        /\ \A k \in 1 .. Len(chains[i].lockedBalances) :
              LET e == chains[i].lockedBalances[k] IN
              /\ e.ticks >= 1
              /\ e.ticks <= origin[e.id].ticks

\* C23 (as claimed): snapshot consistency.  When the strategy is called, and
\* so in the chains it is handed, every pool is at most its cap and every
\* entry still in a ledger has between 1 tick and the countdown it was
\* pushed with left.  The code breaks the first part: the pools that an
\* accepted action with an amount that is no number has written (C22) are no
\* numbers at the next call of the strategy, std::min keeping them so.
C23_SnapshotConsistent ==
    /\ pc = "strategy" => ConsistentForStrategy(m_chains)
    /\ pc = "actions" => ConsistentForStrategy(snapshot)

\* ---------------------------------------------------------------- C24
\* a == b for doubles: false when one of them is no number
Same(a, b) == ~IsNaN(a) /\ ~IsNaN(b) /\ a = b

\* C24 (as claimed): the total that reportState prints is changed by
\* accepted actions only.  The iteration of the chain loop (regeneration,
\* aging, release), a rejected action and every step that is not an action
\* leave it as it is; an accepted bridge lowers it by the gas cost of the
\* source; an accepted execute changes it by (amount - gasCost) *
\* executionSurplus - amount, gas cost and surplus being the source's.  The
\* code breaks it: an accepted action with an amount that is no number (C22)
\* makes the total no number.
C24_TotalChangedByAcceptedOnly ==
    [][ LET total == reportState(m_chains)
            after == reportState(m_chains')
        IN  /\ ~AtAction => Same(after, total)
            /\ RejectsAction => Same(after, total)
            /\ AcceptsAction =>
                  LET action == actions[ai]
                      params == m_chains[ChainNamed(action.source)].params
                  IN  IF action.type = "bridge"
                      THEN Same(after, Minus(total, params.gasCost))
                      ELSE Same(after,
                                Minus(Plus(total,
                                           TimesSurplus(Minus(action.amount, params.gasCost),
                                                        params.executionSurplus)),
                                      action.amount)) ]_vars

====
